---- MODULE Spec2Model ----
(***************************************************************************)
(* Model of package upsert (brnstz/upsert): the update-or-insert sequence   *)
(* of Upsert and UpsertTx over an sqlx executor, statement by statement.    *)
(* A record type is its kind and the upsert tag of every struct field.      *)
(* The executor is a PostgreSQL table: a bag of rows, with or without a     *)
(* unique constraint on the key columns, whose statements may fail.         *)
(***************************************************************************)
EXTENDS Integers, Sequences, FiniteSets, TLC

VARIABLES
    callers,   \* the goroutines calling into the package
    rtype,     \* the record type: its kind and the upsert tag of each field
    unique,    \* whether the table has a unique constraint on the key columns
    tname,     \* the table name the record's Table() returns
    built,     \* the statements built for the record type, one after another
    table,     \* the committed rows of the table: row -> number of copies
    pc,        \* where each caller is in its call
    op,        \* the exported function each caller is in
    u,         \* the caller's record (scanned into in place)
    detect,    \* whether Update first reads the row back (upsert_test.go revision)
    err,       \* the named result err of the call
    inserted,  \* the named result inserted of the call
    log,       \* the statements the call sent to the executor, with their outcome
    tx,        \* the state of the transaction opened by UpsertTx
    txTable,   \* the rows as seen inside the open transaction
    pre,       \* the committed rows when the call started
    u0,        \* the record as the caller passed it
    cursors    \* result cursors (sqlx.Rows) opened and not closed

config == <<callers, rtype, unique, tname, built>>
db == <<table, tx, txTable>>
call == <<pc, op, u, detect, err, inserted, log, pre, u0, cursors>>
vars == <<config, db, call>>

----------------------------------------------------------------------------
(* Bound of the model: a call that can insert starts only while the table  *)
(* holds fewer rows than this.                                              *)
MaxRows == 2

----------------------------------------------------------------------------
(* Values *)
(* A struct of two int fields, in declaration order; two column values are *)
(* enough to tell an equal column from a different one.                    *)
FieldSeq == <<1, 2>>
Fields == {FieldSeq[i] : i \in 1..Len(FieldSeq)}
Vals == {0, 1}
Records == [Fields -> Vals]

nil == "nil"
ErrNoIDReturned == "no id returned"
ExecErrors == {"connection error", "sql error"}
UniqueViolation == "unique violation"
ScanError == "scan error"

EmptyTable == [r \in Records |-> 0]

RECURSIVE Count(_, _)
Count(S, tbl) ==
    IF S = {} THEN 0
    ELSE LET r == CHOOSE x \in S : TRUE
         IN  tbl[r] + Count(S \ {r}, tbl)

Size(tbl) == Count(Records, tbl)

----------------------------------------------------------------------------
(* Struct tags: the value of the upsert tag, as a string of characters *)
TagNone == <<>>
TagKey == <<"k", "e", "y">>
TagOmit == <<"o", "m", "i", "t">>
TagKeyOmit == TagKey \o <<",">> \o TagOmit
UpsertTags == {TagNone, TagKey, TagOmit}

(* Record types: a pointer to a struct, a struct, or a value of another    *)
(* kind, which has no fields.                                              *)
StructKinds == {"ptr", "struct"}
StructType(k, tags) == [kind |-> k, tags |-> tags]
NonStruct == [kind |-> "int", tags |-> [f \in Fields |-> TagNone]]
RecordTypes == {StructType("ptr", tags) : tags \in [Fields -> UpsertTags]} \cup {NonStruct}

Contains(s, substr) ==
    \E i \in 0..(Len(s) - Len(substr)) : SubSeq(s, i + 1, i + Len(substr)) = substr

updateColumns_NoKeys(t) ==
    LET keep(f) == ~Contains(t.tags[f], TagOmit) /\ ~Contains(t.tags[f], TagKey)
    IN  IF t.kind \notin StructKinds THEN <<>> ELSE SelectSeq(FieldSeq, keep)

updateColumns(t) ==
    LET keep(f) == ~Contains(t.tags[f], TagOmit)
    IN  IF t.kind \notin StructKinds THEN <<>> ELSE SelectSeq(FieldSeq, keep)

uniqueKeyColumns(t) ==
    LET keep(f) == Contains(t.tags[f], TagKey)
    IN  IF t.kind \notin StructKinds THEN <<>> ELSE SelectSeq(FieldSeq, keep)

Range(s) == {s[i] : i \in 1..Len(s)}

----------------------------------------------------------------------------
(* Statement builder: a statement is its verb, the table name and whether  *)
(* it is double-quoted, the columns it assigns and the columns it compares. *)
set(t) == updateColumns(t)
values(t) == updateColumns(t)
where_AllColumns(t) == updateColumns(t)

where(t) == uniqueKeyColumns(t)

updateSQL(t) == [stmt |-> "UPDATE", table |-> tname, quoted |-> TRUE, cols |-> set(t), where |-> where(t)]
insertSQL(t) == [stmt |-> "INSERT", table |-> tname, quoted |-> TRUE, cols |-> values(t), where |-> <<>>]
getSQL(t) == [stmt |-> "SELECT", table |-> tname, quoted |-> FALSE, cols |-> <<>>, where |-> where(t)]
deleteSQL(t) == [stmt |-> "DELETE", table |-> tname, quoted |-> TRUE, cols |-> <<>>, where |-> where(t)]

----------------------------------------------------------------------------
(* The executor: what PostgreSQL does with a statement and its bound record *)
Malformed(q) ==
    \/ q.stmt = "UPDATE" /\ (Len(q.cols) = 0 \/ Len(q.where) = 0)
    \/ q.stmt = "INSERT" /\ Len(q.cols) = 0
    \/ q.stmt \in {"SELECT", "DELETE"} /\ Len(q.where) = 0

Failures(q) == IF Malformed(q) THEN {"sql error"} ELSE ExecErrors

Matches(q, r, rec) == \A f \in Range(q.where) : r[f] = rec[f]

Matched(q, tbl, rec) == {r \in Records : tbl[r] > 0 /\ Matches(q, r, rec)}

Assign(q, r, rec) == [f \in Fields |-> IF f \in Range(q.cols) THEN rec[f] ELSE r[f]]

ExecUpdate(q, tbl, rec) ==
    LET image(r) == IF Matches(q, r, rec) THEN Assign(q, r, rec) ELSE r
    IN  [r2 \in Records |-> Count({r \in Records : image(r) = r2}, tbl)]

UpdateReturning(q, tbl, rec) == {Assign(q, r, rec) : r \in Matched(q, tbl, rec)}

InsertRows(q, rec) == {r \in Records : \A f \in Range(q.cols) : r[f] = rec[f]}

ExecInsert(tbl, r) == [tbl EXCEPT ![r] = @ + 1]

ExecDelete(q, tbl, rec) == [r \in Records |-> IF Matches(q, r, rec) THEN 0 ELSE tbl[r]]

Violates_Never(t, tbl, r) == FALSE

Violates(t, tbl, r) ==
    /\ Len(uniqueKeyColumns(t)) > 0
    /\ \E r2 \in Records :
          tbl[r2] > 0 /\ \A f \in Range(uniqueKeyColumns(t)) : r2[f] = r[f]

Ext(c) == IF tx[c] = "open" THEN txTable[c] ELSE table

WriteExt_Db(c, tbl) == table' = tbl /\ UNCHANGED txTable

WriteExt(c, tbl) ==
    IF tx[c] = "open"
    THEN txTable' = [txTable EXCEPT ![c] = tbl] /\ UNCHANGED table
    ELSE table' = tbl /\ UNCHANGED txTable

Logged(c, s, r) == [log EXCEPT ![c] = Append(@, [stmt |-> s, res |-> r])]

----------------------------------------------------------------------------
(* Control flow of the callers of Update and Insert *)
Ops == {"Update", "Insert", "Upsert", "UpsertTx", "Delete"}

UpdateEntry(d) == IF d THEN "Update.get" ELSE "Update"

AfterBeginx_Continue(e, d) == UpdateEntry(d)

AfterBeginx(e, d) == IF e # nil THEN "done" ELSE UpdateEntry(d)

AfterGet_ShortCircuit(equal) == IF equal THEN "return" ELSE "Update"

AfterGet(equal) == "Update"

InsertNoRows_Nil == nil

InsertNoRows == ErrNoIDReturned

UpsertAfterUpdate_Retry(e) ==
    IF e = nil THEN "done" ELSE IF e \in ExecErrors THEN "Update" ELSE "Insert"

UpsertAfterUpdate_AlwaysInsert(e) == "Insert"

UpsertAfterUpdate(e) == IF e = nil THEN "done" ELSE "Insert"

UpsertTxAfterUpdate_AlwaysInsert(e) == "Insert"

UpsertTxAfterUpdate(e) == IF e # ErrNoIDReturned THEN "defer" ELSE "Insert"

AfterUpdate(c, e) ==
    CASE op[c] = "Upsert" -> UpsertAfterUpdate(e)
      [] op[c] = "UpsertTx" -> UpsertTxAfterUpdate(e)
      [] OTHER -> "done"

AfterInsert(c) == IF op[c] = "UpsertTx" THEN "defer" ELSE "done"

InsertedAfter_Never(c, e) == FALSE

InsertedAfter(c, e) == op[c] \in {"Upsert", "UpsertTx"} /\ e = nil

DeferredTxEnd_AlwaysCommit(e) == "COMMIT"

DeferredTxEnd(e) == IF e # nil THEN "ROLLBACK" ELSE "COMMIT"

Active == {c \in callers : pc[c] \notin {"idle", "done"}}

----------------------------------------------------------------------------
(* The state before any call: the callers, the record type and the table  *)
(* name are drawn from the given sets, the table is empty.                  *)
Start(cs, types, names) ==
    /\ callers = cs
    /\ rtype \in types
    /\ unique \in BOOLEAN
    /\ tname \in names
    /\ built = <<>>
    /\ table = EmptyTable
    /\ pc = [c \in callers |-> "idle"]
    /\ op = [c \in callers |-> "Upsert"]
    /\ u = [c \in callers |-> [f \in Fields |-> 0]]
    /\ detect = [c \in callers |-> FALSE]
    /\ err = [c \in callers |-> nil]
    /\ inserted = [c \in callers |-> FALSE]
    /\ log = [c \in callers |-> <<>>]
    /\ tx = [c \in callers |-> "none"]
    /\ txTable = [c \in callers |-> EmptyTable]
    /\ pre = [c \in callers |-> EmptyTable]
    /\ u0 = [c \in callers |-> [f \in Fields |-> 0]]
    /\ cursors = [c \in callers |-> 0]

Init == Start({1}, RecordTypes, {"hello"})

(* A caller calls one of the exported functions with a record. *)
Invoke(c) ==
    /\ pc[c] \in {"idle", "done"}
    /\ \E o \in Ops, rec \in Records, d \in BOOLEAN :
          /\ o # "Delete" => Size(table) + Cardinality(Active) < MaxRows
          /\ op' = [op EXCEPT ![c] = o]
          /\ u' = [u EXCEPT ![c] = rec]
          /\ u0' = [u0 EXCEPT ![c] = rec]
          /\ detect' = [detect EXCEPT ![c] = d /\ o \in {"Update", "Upsert", "UpsertTx"}]
          /\ pc' = [pc EXCEPT ![c] =
                       CASE o = "UpsertTx" -> "Beginx"
                         [] o = "Insert" -> "Insert"
                         [] o = "Delete" -> "Delete"
                         [] OTHER -> UpdateEntry(d)]
    /\ err' = [err EXCEPT ![c] = nil]
    /\ inserted' = [inserted EXCEPT ![c] = FALSE]
    /\ log' = [log EXCEPT ![c] = <<>>]
    /\ pre' = [pre EXCEPT ![c] = table]
    /\ tx' = [tx EXCEPT ![c] = "none"]
    /\ txTable' = [txTable EXCEPT ![c] = EmptyTable]
    /\ cursors' = [cursors EXCEPT ![c] = 0]
    /\ UNCHANGED <<config, table>>

(* UpsertTx: db.Beginx() *)
Beginx(c) ==
    /\ pc[c] = "Beginx"
    /\ \/ \E e \in ExecErrors :
             /\ err' = [err EXCEPT ![c] = e]
             /\ log' = Logged(c, "BEGIN", e)
             /\ pc' = [pc EXCEPT ![c] = AfterBeginx(e, detect[c])]
             /\ UNCHANGED <<tx, txTable>>
       \/ /\ tx' = [tx EXCEPT ![c] = "open"]
          /\ txTable' = [txTable EXCEPT ![c] = table]
          /\ log' = Logged(c, "BEGIN", "ok")
          /\ pc' = [pc EXCEPT ![c] = AfterBeginx(nil, detect[c])]
          /\ UNCHANGED err
    /\ UNCHANGED <<config, table, op, u, detect, inserted, pre, u0, cursors>>

(* Update, revision with change detection: the SELECT before the UPDATE *)
UpdateGet(c) ==
    /\ pc[c] = "Update.get"
    /\ LET q == getSQL(rtype)
           rows == Matched(q, Ext(c), u[c])
       IN  \/ \E e \in Failures(q) :
                 /\ err' = [err EXCEPT ![c] = e]
                 /\ log' = Logged(c, "SELECT", e)
                 /\ pc' = [pc EXCEPT ![c] = AfterUpdate(c, e)]
                 /\ UNCHANGED cursors
           \/ /\ ~Malformed(q)
              /\ cursors' = [cursors EXCEPT ![c] = IF rows = {} THEN @ ELSE @ + 1]
              /\ \/ /\ rows = {}
                    /\ log' = Logged(c, "SELECT", "no rows")
                    /\ pc' = [pc EXCEPT ![c] = "Update"]
                    /\ UNCHANGED err
                 \/ \E r \in rows :
                       LET equal == (r = u[c])
                           next == AfterGet(equal)
                       IN  /\ log' = Logged(c, "SELECT", IF equal THEN "row equal" ELSE "row not equal")
                           /\ pc' = [pc EXCEPT ![c] =
                                        IF next = "return" THEN AfterUpdate(c, nil) ELSE next]
                           /\ UNCHANGED err
                 \/ /\ rows # {}
                    /\ err' = [err EXCEPT ![c] = ScanError]
                    /\ log' = Logged(c, "SELECT", ScanError)
                    /\ pc' = [pc EXCEPT ![c] = AfterUpdate(c, ScanError)]
    /\ UNCHANGED <<config, db, op, u, detect, inserted, pre, u0>>

UpdateReturn(c, e, rec, tbl, res) ==
    /\ err' = [err EXCEPT ![c] = e]
    /\ u' = [u EXCEPT ![c] = rec]
    /\ WriteExt(c, tbl)
    /\ log' = Logged(c, "UPDATE", res)
    /\ pc' = [pc EXCEPT ![c] = AfterUpdate(c, e)]
    /\ UNCHANGED <<config, tx, op, detect, inserted, pre, u0, cursors>>

(* Update: the UPDATE ... RETURNING * statement and the scan of its row *)
Update(c) ==
    /\ pc[c] = "Update"
    /\ LET q == updateSQL(rtype)
           tbl == Ext(c)
           new == ExecUpdate(q, tbl, u[c])
           rows == UpdateReturning(q, tbl, u[c])
       IN  \/ \E e \in Failures(q) : UpdateReturn(c, e, u[c], tbl, e)
           \/ /\ ~Malformed(q)
              /\ rows = {}
              /\ UpdateReturn(c, ErrNoIDReturned, u[c], new, "no rows")
           \/ /\ ~Malformed(q)
              /\ \E r \in rows :
                    \/ UpdateReturn(c, nil, r, new, "row")
                    \/ UpdateReturn(c, ScanError, u[c], new, ScanError)

InsertReturn(c, e, rec, tbl, res) ==
    /\ err' = [err EXCEPT ![c] = e]
    /\ u' = [u EXCEPT ![c] = rec]
    /\ WriteExt(c, tbl)
    /\ log' = Logged(c, "INSERT", res)
    /\ inserted' = [inserted EXCEPT ![c] = InsertedAfter(c, e)]
    /\ pc' = [pc EXCEPT ![c] = AfterInsert(c)]
    /\ UNCHANGED <<config, tx, op, detect, pre, u0, cursors>>

(* Insert: the INSERT ... RETURNING * statement and the scan of its row *)
Insert(c) ==
    /\ pc[c] = "Insert"
    /\ LET q == insertSQL(rtype)
           tbl == Ext(c)
       IN  \/ \E e \in Failures(q) : InsertReturn(c, e, u[c], tbl, e)
           \/ /\ ~Malformed(q)
              /\ \E r \in InsertRows(q, u[c]) :
                    IF unique /\ Violates(rtype, tbl, r)
                    THEN InsertReturn(c, UniqueViolation, u[c], tbl, UniqueViolation)
                    ELSE \/ InsertReturn(c, nil, r, ExecInsert(tbl, r), "row")
                         \/ InsertReturn(c, ScanError, u[c], ExecInsert(tbl, r), ScanError)
           \/ /\ ~Malformed(q)
              /\ InsertReturn(c, InsertNoRows, u[c], tbl, "no rows")

(* UpsertTx: the deferred function, tx.Rollback() or tx.Commit() *)
UpsertTxDefer(c) ==
    /\ pc[c] = "defer"
    /\ tx[c] = "open"
    /\ \/ /\ DeferredTxEnd(err[c]) = "ROLLBACK"
          /\ tx' = [tx EXCEPT ![c] = "rolled back"]
          /\ log' = Logged(c, "ROLLBACK", "ok")
          /\ UNCHANGED table
       \/ /\ DeferredTxEnd(err[c]) = "COMMIT"
          /\ tx' = [tx EXCEPT ![c] = "committed"]
          /\ table' = txTable[c]
          /\ log' = Logged(c, "COMMIT", "ok")
       \/ /\ DeferredTxEnd(err[c]) = "COMMIT"
          /\ \E e \in ExecErrors :
                /\ tx' = [tx EXCEPT ![c] = "commit failed"]
                /\ log' = Logged(c, "COMMIT", e)
          /\ UNCHANGED table
    /\ txTable' = [txTable EXCEPT ![c] = EmptyTable]
    /\ pc' = [pc EXCEPT ![c] = "done"]
    /\ UNCHANGED <<config, op, u, detect, err, inserted, pre, u0, cursors>>

(* Delete: the DELETE statement *)
Delete(c) ==
    /\ pc[c] = "Delete"
    /\ LET q == deleteSQL(rtype)
       IN  \/ \E e \in Failures(q) :
                 /\ err' = [err EXCEPT ![c] = e]
                 /\ log' = Logged(c, "DELETE", e)
                 /\ UNCHANGED table
           \/ /\ ~Malformed(q)
              /\ table' = ExecDelete(q, table, u[c])
              /\ log' = Logged(c, "DELETE", "ok")
              /\ UNCHANGED err
    /\ pc' = [pc EXCEPT ![c] = "done"]
    /\ UNCHANGED <<config, tx, txTable, op, u, detect, inserted, pre, u0, cursors>>

Next ==
    \/ \E c \in callers : Invoke(c)
    \/ \E c \in callers : Beginx(c)
    \/ \E c \in callers : UpdateGet(c)
    \/ \E c \in callers : Update(c)
    \/ \E c \in callers : Insert(c)
    \/ \E c \in callers : UpsertTxDefer(c)
    \/ \E c \in callers : Delete(c)

Spec == Init /\ [][Next]_vars

----------------------------------------------------------------------------
(* The statement builder on its own: for a record type of any kind, with    *)
(* any combination of tags, and a table name, the four statements are       *)
(* built one after another, in any order.                                   *)
AllTags == {TagNone, TagKey, TagOmit, TagKeyOmit}

BuildTypes ==
    {StructType(k, tags) : k \in StructKinds, tags \in [Fields -> AllTags]} \cup {NonStruct}

TableNames == {"hello", "Hello"}

InitBuild == Start({1}, BuildTypes, TableNames)

Build(q) ==
    /\ \A i \in 1..Len(built) : built[i].stmt # q.stmt
    /\ built' = Append(built, q)
    /\ UNCHANGED <<callers, rtype, unique, tname, db, call>>

BuildUpdate == Build(updateSQL(rtype))

BuildInsert == Build(insertSQL(rtype))

BuildGet == Build(getSQL(rtype))

BuildDelete == Build(deleteSQL(rtype))

NextBuild ==
    \/ BuildUpdate
    \/ BuildInsert
    \/ BuildGet
    \/ BuildDelete

SpecBuild == InitBuild /\ [][NextBuild]_vars

----------------------------------------------------------------------------
(* Two goroutines each call Upsert once, for the same key, on an empty      *)
(* table; their statements interleave in any order. The executor fails a    *)
(* statement only for a violation of the unique constraint.                 *)
Racers == {1, 2}

ConstraintOnly(c) ==
    \A i \in 1..Len(log[c]) :
        \/ log[c][i].res \in {"row", "row equal", "row not equal"}
        \/ log[c][i].stmt \in {"SELECT", "UPDATE"} /\ log[c][i].res = "no rows"
        \/ log[c][i].stmt = "INSERT" /\ log[c][i].res = UniqueViolation

InitRace == Start(Racers, {t \in RecordTypes : Len(uniqueKeyColumns(t)) > 0}, {"hello"})

RaceInvoke(c) ==
    /\ pc[c] = "idle"
    /\ Invoke(c)
    /\ op'[c] = "Upsert"
    /\ \A d \in callers \ {c} :
          pc[d] # "idle" =>
              \A f \in Range(uniqueKeyColumns(rtype)) : u0'[c][f] = u0[d][f]

NextRace ==
    \/ \E c \in callers : RaceInvoke(c)
    \/ \E c \in callers : UpdateGet(c) /\ ConstraintOnly(c)'
    \/ \E c \in callers : Update(c) /\ ConstraintOnly(c)'
    \/ \E c \in callers : Insert(c) /\ ConstraintOnly(c)'

SpecRace == InitRace /\ [][NextRace]_vars

----------------------------------------------------------------------------
(* Vocabulary of the properties *)
Stmts(c, s) == {i \in 1..Len(log[c]) : log[c][i].stmt = s}

Ran(c, s) == Stmts(c, s) # {}

Results(c, s) == {log[c][i].res : i \in Stmts(c, s)}

Last(c) == log[c][Len(log[c])]

Done(c) == pc[c] = "done"

Began(c) == "ok" \in Results(c, "BEGIN")

TxEnds(c) == Stmts(c, "COMMIT") \cup Stmts(c, "ROLLBACK")

(* No statement of the call failed: none returned an error, every returned *)
(* row was scanned, and the INSERT returned its row.                        *)
NoFailure(c) ==
    \A i \in 1..Len(log[c]) :
        \/ log[c][i].res \in {"ok", "row", "row equal", "row not equal"}
        \/ log[c][i].stmt \in {"SELECT", "UPDATE"} /\ log[c][i].res = "no rows"

KeyFields == Range(uniqueKeyColumns(rtype))

WritableFields == Range(updateColumns(rtype)) \ KeyFields

SameKey(r, rec) == \A f \in KeyFields : r[f] = rec[f]

SameWritable(r, rec) == \A f \in WritableFields : r[f] = rec[f]

WithKey(tbl, rec) == {r \in Records : tbl[r] > 0 /\ SameKey(r, rec)}

KeyedType == KeyFields # {} /\ WritableFields # {}

(* The error Update returned to its caller, read off the statements it sent *)
UpdateErr(c) ==
    LET sel == Results(c, "SELECT") \cap (ExecErrors \cup {ScanError})
        upd == Results(c, "UPDATE")
    IN  IF sel # {} THEN CHOOSE e \in sel : TRUE
        ELSE IF upd = {"row"} THEN nil
        ELSE IF upd = {"no rows"} THEN ErrNoIDReturned
        ELSE CHOOSE e \in upd : TRUE

UpdateReturned(c) ==
    \/ Ran(c, "UPDATE")
    \/ Results(c, "SELECT") \cap (ExecErrors \cup {ScanError}) # {}

InsertErr(c) ==
    LET ins == Results(c, "INSERT")
    IN  IF ins = {"row"} THEN nil
        ELSE IF ins = {"no rows"} THEN ErrNoIDReturned
        ELSE CHOOSE e \in ins : TRUE

TypeOK ==
    /\ rtype \in RecordTypes
    /\ unique \in BOOLEAN
    /\ table \in [Records -> 0..(MaxRows + 1)]
    /\ \A c \in callers :
          /\ pc[c] \in {"idle", "Beginx", "Update.get", "Update", "Insert", "defer", "Delete", "done"}
          /\ op[c] \in Ops
          /\ u[c] \in Records /\ u0[c] \in Records
          /\ err[c] \in {nil, ErrNoIDReturned, ScanError, UniqueViolation} \cup ExecErrors
          /\ inserted[c] \in BOOLEAN
          /\ tx[c] \in {"none", "open", "committed", "rolled back", "commit failed"}
          /\ cursors[c] \in 0..1

----------------------------------------------------------------------------
(* C1: in Upsert and UpsertTx, when the executor fails the UPDATE statement *)
(* the call returns that same error with inserted = false and sends no      *)
(* INSERT.                                                                  *)
C1_UpdateErrorPropagates ==
    \A c \in callers :
        (Done(c) /\ op[c] \in {"Upsert", "UpsertTx"}) =>
            \A e \in Results(c, "UPDATE") \cap ExecErrors :
                /\ err[c] = e
                /\ ~inserted[c]
                /\ ~Ran(c, "INSERT")

(* C2: in one Upsert or UpsertTx call an INSERT is sent only after the      *)
(* UPDATE ran and returned zero rows; after an UPDATE that returned a row,  *)
(* scanned or not, no INSERT is sent.                                       *)
C2_InsertOnlyAfterNoMatch ==
    \A c \in callers :
        (op[c] \in {"Upsert", "UpsertTx"} /\ Ran(c, "INSERT")) =>
            Results(c, "UPDATE") = {"no rows"}

(* C3: an UpsertTx call whose transaction opened ends it exactly once, by   *)
(* Commit or Rollback, as the last thing the call sends, and by Rollback    *)
(* exactly when the call returns a non-nil error.                           *)
C3_TxEndedOnce ==
    \A c \in callers :
        /\ Cardinality(TxEnds(c)) <= 1
        /\ TxEnds(c) # {} => (op[c] = "UpsertTx" /\ Began(c) /\ TxEnds(c) = {Len(log[c])})
        /\ (Done(c) /\ op[c] = "UpsertTx" /\ Began(c)) =>
              /\ Cardinality(TxEnds(c)) = 1
              /\ Last(c).stmt = "ROLLBACK" <=> err[c] # nil

C3_Witness ==
    \E c \in callers :
        /\ Done(c) /\ op[c] = "UpsertTx" /\ Ran(c, "INSERT")
        /\ Last(c).stmt = "ROLLBACK" /\ err[c] # nil

(* C4: when UpsertTx returns a non-nil error the committed table is what it *)
(* was before the call; after an UPDATE that matched nothing and an INSERT  *)
(* that failed, no row for the key is visible.                              *)
C4_ErrorLeavesTableUnchanged ==
    \A c \in callers :
        (Done(c) /\ op[c] = "UpsertTx" /\ err[c] # nil) =>
            /\ table = pre[c]
            /\ Results(c, "UPDATE") = {"no rows"} => WithKey(table, u0[c]) = {}

C4_Witness ==
    \E c \in callers :
        /\ Done(c) /\ op[c] = "UpsertTx" /\ err[c] = ScanError
        /\ Results(c, "UPDATE") = {"no rows"}
        /\ Results(c, "INSERT") = {ScanError}
        /\ WithKey(table, u0[c]) = {}

(* C5: UpsertTx sends the UPDATE and INSERT statements Upsert would send    *)
(* for the same executor behaviour, and returns the same (inserted, err).   *)
C5_TxSameAsPlain ==
    \A c \in callers :
        (Done(c) /\ op[c] = "UpsertTx" /\ Began(c) /\ UpdateReturned(c)) =>
            LET e == UpdateErr(c)
            IN  IF UpsertAfterUpdate(e) = "Insert"
                THEN /\ Ran(c, "INSERT")
                     /\ <<inserted[c], err[c]>> = <<InsertErr(c) = nil, InsertErr(c)>>
                ELSE /\ ~Ran(c, "INSERT")
                     /\ <<inserted[c], err[c]>> = <<FALSE, e>>

(* The row stored for the record's key when the call started, compared     *)
(* with the record passed in.                                               *)
Absent(c) == WithKey(pre[c], u0[c]) = {}

PresentChanged(c) ==
    /\ WithKey(pre[c], u0[c]) # {}
    /\ \A r \in WithKey(pre[c], u0[c]) : ~SameWritable(r, u0[c])

PresentUnchanged(c) ==
    /\ WithKey(pre[c], u0[c]) # {}
    /\ \A r \in WithKey(pre[c], u0[c]) : SameWritable(r, u0[c])

(* C6: with a key field and a writable field and no failing statement,      *)
(* Upsert of a record whose key matches no row returns inserted = true and  *)
(* a nil error, and leaves exactly one row with that key, holding the       *)
(* record's writable values.                                                *)
C6_AbsentKeyInserted ==
    \A c \in callers :
        (Done(c) /\ op[c] = "Upsert" /\ KeyedType /\ NoFailure(c) /\ Absent(c)) =>
            /\ inserted[c] /\ err[c] = nil
            /\ Count(WithKey(table, u0[c]), table) = 1
            /\ \A r \in WithKey(table, u0[c]) : SameWritable(r, u0[c])

C6_Witness ==
    \E c \in callers :
        /\ Done(c) /\ op[c] = "Upsert" /\ KeyedType /\ NoFailure(c) /\ Absent(c)
        /\ Size(pre[c]) = 1 /\ Size(table) = 2
        /\ inserted[c]

(* C7: with no failing statement, Upsert of a record whose key matches a    *)
(* stored row with other writable values returns inserted = false and a nil *)
(* error, adds no row, and leaves the row for that key with the record's    *)
(* writable values.                                                         *)
C7_PresentKeyUpdated ==
    \A c \in callers :
        (Done(c) /\ op[c] = "Upsert" /\ KeyedType /\ NoFailure(c) /\ PresentChanged(c)) =>
            /\ ~inserted[c] /\ err[c] = nil
            /\ Size(table) = Size(pre[c])
            /\ WithKey(table, u0[c]) # {}
            /\ \A r \in WithKey(table, u0[c]) : SameWritable(r, u0[c])

C7_Witness ==
    \E c \in callers :
        /\ Done(c) /\ op[c] = "Upsert" /\ KeyedType /\ NoFailure(c) /\ PresentChanged(c)
        /\ Results(c, "UPDATE") = {"row"}
        /\ table # pre[c]

(* What a caller of Upsert sees of a call that updated a row. *)
Updated == <<FALSE, nil>>

(* C8 as claimed: a second Upsert with the same key and the same writable   *)
(* values yields an outcome the caller can tell from Updated.               *)
C8_NoChangeDistinguishable ==
    \A c \in callers :
        (Done(c) /\ op[c] = "Upsert" /\ KeyedType /\ NoFailure(c) /\ PresentUnchanged(c)) =>
            <<inserted[c], err[c]>> # Updated

(* C8 as amended: the first Upsert of a key returns inserted = true and     *)
(* leaves the row equal to the record; a second Upsert with the same key    *)
(* and the same writable values returns inserted = false and a nil error,   *)
(* which is what a call that changed the row returns, and leaves the table  *)
(* as the first call left it.                                               *)
C8_SecondCallReportsUpdated ==
    \A c \in callers :
        (Done(c) /\ op[c] = "Upsert" /\ KeyedType /\ NoFailure(c)) =>
            /\ Absent(c) =>
                  /\ <<inserted[c], err[c]>> = <<TRUE, nil>>
                  /\ WithKey(table, u0[c]) # {}
                  /\ \A r \in WithKey(table, u0[c]) : SameWritable(r, u0[c])
            /\ PresentUnchanged(c) =>
                  /\ <<inserted[c], err[c]>> = Updated
                  /\ table = pre[c]

C8_Witness ==
    \E c \in callers :
        /\ Done(c) /\ op[c] = "Upsert" /\ KeyedType /\ NoFailure(c) /\ PresentUnchanged(c)
        /\ u0[c] \in WithKey(pre[c], u0[c])
        /\ ~inserted[c] /\ err[c] = nil

(* C9 as claimed: when the stored row already equals the record, the call   *)
(* sends neither an UPDATE nor an INSERT.                                   *)
C9_UnchangedSendsNoWrite ==
    \A c \in callers :
        (Done(c) /\ op[c] \in {"Upsert", "UpsertTx"} /\ KeyedType /\ NoFailure(c)
              /\ PresentUnchanged(c)) =>
            ~Ran(c, "UPDATE") /\ ~Ran(c, "INSERT")

(* C9 as amended: when the stored row already equals the record, also when  *)
(* the SELECT of the change detection found it equal, the call still sends  *)
(* exactly one UPDATE, which returns the row, and sends no INSERT.          *)
C9_UnchangedStillUpdates ==
    \A c \in callers :
        (Done(c) /\ op[c] \in {"Upsert", "UpsertTx"} /\ KeyedType /\ NoFailure(c)
              /\ PresentUnchanged(c)) =>
            /\ Cardinality(Stmts(c, "UPDATE")) = 1
            /\ Results(c, "UPDATE") = {"row"}
            /\ ~Ran(c, "INSERT")

C9_Witness ==
    \E c \in callers :
        /\ Done(c) /\ op[c] \in {"Upsert", "UpsertTx"} /\ KeyedType /\ NoFailure(c)
        /\ PresentUnchanged(c)
        /\ Results(c, "SELECT") = {"row equal"}
        /\ Ran(c, "UPDATE")

(* C10: when the INSERT runs without error and returns zero rows, Insert    *)
(* returns ErrNoIDReturned, Upsert and UpsertTx return it with              *)
(* inserted = false, and UpsertTx rolls back.                               *)
C10_NoRowFromInsert ==
    \A c \in callers :
        (Done(c) /\ op[c] \in {"Insert", "Upsert", "UpsertTx"}
              /\ "no rows" \in Results(c, "INSERT")) =>
            /\ err[c] = ErrNoIDReturned
            /\ ~inserted[c]
            /\ op[c] = "UpsertTx" => (Last(c).stmt = "ROLLBACK" /\ table = pre[c])

C10_Witness ==
    \E c \in callers :
        /\ Done(c) /\ op[c] = "UpsertTx"
        /\ Results(c, "INSERT") = {"no rows"}
        /\ Last(c).stmt = "ROLLBACK"

----------------------------------------------------------------------------
(* C11: a record whose struct type declares no key field is rejected:       *)
(* Update, Delete, Upsert and UpsertTx called with it return an error and   *)
(* leave the table as it was, no row updated, deleted or inserted.          *)
C11_KeylessRejected ==
    \A c \in callers :
        (Done(c) /\ op[c] \in {"Update", "Delete", "Upsert", "UpsertTx"}
              /\ rtype.kind \in StructKinds /\ KeyFields = {}) =>
            /\ err[c] # nil
            /\ table = pre[c]

(* C12: no retries. In one Upsert or UpsertTx call at most one UPDATE and   *)
(* at most one INSERT are sent, the UPDATE before the INSERT, and no        *)
(* statement is sent a second time, after an error or otherwise.            *)
C12_NoRetries ==
    \A c \in callers :
        op[c] \in {"Upsert", "UpsertTx"} =>
            /\ Cardinality(Stmts(c, "UPDATE")) <= 1
            /\ Cardinality(Stmts(c, "INSERT")) <= 1
            /\ \A i \in Stmts(c, "UPDATE"), j \in Stmts(c, "INSERT") : i < j
            /\ \A i, j \in 1..Len(log[c]) : i < j => log[c][i].stmt # log[c][j].stmt

C12_Witness ==
    \E c \in callers :
        /\ Done(c) /\ op[c] = "Upsert"
        /\ Results(c, "UPDATE") \cap ExecErrors # {}
        /\ Results(c, "INSERT") \cap ExecErrors # {}
        /\ Len(log[c]) = 2

(* C13: two concurrent Upsert calls for the same key, absent before, with   *)
(* their statements interleaved in any order. With a unique constraint on   *)
(* the key columns the table never holds two rows of that key, and when     *)
(* both calls have returned it holds exactly one and at most one call       *)
(* returned inserted = true. Without the constraint the rows of the key     *)
(* are as many as the calls that returned inserted = true, one or two.      *)
C13_RaceOutcome ==
    LET rows == Count(WithKey(table, u0[1]), table)
        won == {c \in callers : inserted[c]}
    IN  /\ unique => rows <= 1
        /\ (\A c \in callers : Done(c)) =>
              /\ rows = Cardinality(won)
              /\ rows >= 1
              /\ unique => rows = 1

C13_Witness ==
    /\ callers = Racers
    /\ ~unique
    /\ \A c \in callers : Done(c) /\ inserted[c] /\ err[c] = nil
    /\ Count(WithKey(table, u0[1]), table) = 2

----------------------------------------------------------------------------
(* Vocabulary of the statement builder's properties *)
Built(s) == {built[i] : i \in {j \in 1..Len(built) : built[j].stmt = s}}

Listed(f, cols) == f \in Range(cols)

InOrder(cols) == \A i, j \in 1..Len(cols) : i < j => cols[i] < cols[j]

C15_NonStructRejected ==
    \A c \in callers :
        rtype.kind \notin StructKinds =>
            /\ \A s \in {"SELECT", "UPDATE", "INSERT", "DELETE"} : ~Ran(c, s)
            /\ Done(c) => err[c] # nil

(* C16: Upsert and UpsertTx return inserted = true only when the returned   *)
(* error is nil and an INSERT of that call returned a row; whenever the     *)
(* error is non-nil, or the UPDATE matched a row, inserted is false.        *)
C16_InsertedMeansInserted ==
    \A c \in callers :
        (Done(c) /\ op[c] \in {"Upsert", "UpsertTx"}) =>
            /\ inserted[c] => (err[c] = nil /\ "row" \in Results(c, "INSERT"))
            /\ err[c] # nil => ~inserted[c]
            /\ Results(c, "UPDATE") \cap {"row", ScanError} # {} => ~inserted[c]

(* The table a statement names: a double-quoted identifier is taken as      *)
(* written, an unquoted one is folded to lower case by PostgreSQL.          *)
ToLower(n) == IF n = "Hello" THEN "hello" ELSE n

TableOf(q) == IF q.quoted THEN q.table ELSE ToLower(q.table)

(* C17: the UPDATE, INSERT, SELECT and DELETE statements built for one      *)
(* record all name the destination table as the double-quoted identifier,   *)
(* so the SELECT reads the table the other three write.                     *)
C17_SameQuotedTable ==
    \A i \in 1..Len(built) :
        /\ built[i].quoted
        /\ TableOf(built[i]) = tname

(* C18: UpsertTx returns a nil error only if Commit succeeded; when Commit  *)
(* fails the caller receives a non-nil error and inserted = false.          *)
C18_NilOnlyIfCommitted ==
    \A c \in callers :
        (Done(c) /\ op[c] = "UpsertTx") =>
            /\ err[c] = nil => Results(c, "COMMIT") = {"ok"}
            /\ Results(c, "COMMIT") \cap ExecErrors # {} => (err[c] # nil /\ ~inserted[c])

(* C19: every result cursor opened by Update or Insert, the cursor of the   *)
(* change-detection SELECT included, is closed by the time the function     *)
(* returns, on every path.                                                  *)
C19_CursorsClosed ==
    \A c \in callers : Done(c) => cursors[c] = 0

----------------------------------------------------------------------------
(* One caller makes Upsert, UpsertTx and Delete calls one after another,    *)
(* starting from the empty table, and the executor never fails: every       *)
(* statement runs, every returned row is scanned, Commit succeeds.          *)
SeqOps == {"Upsert", "UpsertTx", "Delete"}

NextSeq ==
    \/ \E c \in callers : Invoke(c) /\ op'[c] \in SeqOps
    \/ \E c \in callers : Beginx(c) /\ NoFailure(c)'
    \/ \E c \in callers : UpdateGet(c) /\ NoFailure(c)'
    \/ \E c \in callers : Update(c) /\ NoFailure(c)'
    \/ \E c \in callers : Insert(c) /\ NoFailure(c)'
    \/ \E c \in callers : UpsertTxDefer(c) /\ NoFailure(c)'
    \/ \E c \in callers : Delete(c) /\ NoFailure(c)'

SpecSeq == Init /\ [][NextSeq]_vars

(* C20: from the empty table, after any sequence of Upsert, UpsertTx and    *)
(* Delete calls made one after another against an executor that never      *)
(* fails, the table holds at most one row per key value, and a call of      *)
(* Upsert or UpsertTx returns inserted = true exactly when no row with its  *)
(* key existed when the call started.                                       *)
C20_OneRowPerKey ==
    /\ \A rec \in Records : Count(WithKey(table, rec), table) <= 1
    /\ \A c \in callers :
          (Done(c) /\ op[c] \in {"Upsert", "UpsertTx"}) =>
              (inserted[c] <=> WithKey(pre[c], u0[c]) = {})

C20_Witness ==
    \E c \in callers :
        /\ Done(c) /\ op[c] = "Upsert" /\ inserted[c]
        /\ Size(pre[c]) = 1 /\ Size(table) = 2
        /\ unique = FALSE

(* C21: if opening the transaction fails, UpsertTx returns that error with  *)
(* inserted = false; the failed Beginx is all the call does: no SELECT,     *)
(* UPDATE or INSERT is sent, neither Commit nor Rollback is invoked, and    *)
(* the table is as it was.                                                  *)
C21_BeginFailureReturns ==
    \A c \in callers :
        \A e \in Results(c, "BEGIN") \cap ExecErrors :
            /\ op[c] = "UpsertTx"
            /\ Done(c)
            /\ err[c] = e
            /\ ~inserted[c]
            /\ log[c] = <<[stmt |-> "BEGIN", res |-> e]>>
            /\ tx[c] = "none"
            /\ table = pre[c]

C21_Witness ==
    \E c \in callers :
        /\ Done(c) /\ op[c] = "UpsertTx"
        /\ Results(c, "BEGIN") = {"connection error"}
        /\ err[c] = "connection error"
        /\ KeyedType

====
